---- MODULE Spec2Model ----
(***************************************************************************)
(* EbayAutolister: CSV loader, API client (token cache, throttle),         *)
(* bulk inventory creation, offer creation/publication and the             *)
(* process_csv_file pipeline of src/ebay_autolister.py.                    *)
(*                                                                         *)
(* Time is counted in milliseconds.  Sequences are 1-based; the Python     *)
(* loop variable i (0-based offset of a chunk) keeps its 0-based value.    *)
(* In Spec and SpecBulk the clock moves only by the throttle's sleep; a    *)
(* cached token goes stale when the endpoint issued it with a lifetime     *)
(* inside the 5 minute buffer.  Variables marked "history" record what     *)
(* the run did and are read by the properties only.                        *)
(***************************************************************************)
EXTENDS Integers, Sequences, FiniteSets, TLC

(* ---------------------------- bounds ----------------------------------- *)
MaxItems == 3
MaxBatch == 2
MaxExtra == 1
MaxChunks == 2
MaxShortTokens == 1
StartTime == 1000
MaxCalls == 4
Latency == 20

(* ----------------------- program constants ----------------------------- *)
DefaultBatchSize == 25
MinInterval == 100
TokenBufferMs == 300000
StatusOk == 200

(* ------------------------- input alphabets ----------------------------- *)
Skus == {"a", "b"}
PriceTexts == {"10", "abc"}
ExpiresInChoices == {300, 7200}
RaiseKinds == {"transport", "http", "json"}
AuthErrorText == "Failed to authenticate"
UnknownErrorText == "Unknown error"

VARIABLES
    pc,                \* position of the caller
    rows,              \* the CSV file's data rows
    items,             \* List[InventoryItem]
    create_listings,   \* argument of process_csv_file
    batch_size,        \* argument of bulk_create_inventory_items
    i,                 \* loop variable of the chunk loop (0-based offset)
    successful,        \* results["successful"]
    failed,            \* results["failed"]
    successfulIdx,     \* history: input position of each entry of successful
    failedIdx,         \* history: input position of each entry of failed
    chunks,            \* history: one record per bulk _make_request call
    api,               \* EbayAPI: access_token, token_expires, last_request
    now,               \* time.time()
    http,              \* history: HTTP requests sent, per endpoint
    li,                \* listings loop: number of items already visited
    offer_id,          \* value returned by create_offer, pending publish
    listings_created,
    listings_failed,
    listing_log,       \* history: one record per create_offer call
    summary,           \* the dict returned by process_csv_file
    hist               \* history: HTTP requests on the wire, the last
                       \* authenticate() call, the token that is cached

vars == <<pc, rows, items, create_listings, batch_size, i, successful, failed,
          successfulIdx, failedIdx, chunks, api, now, http, li, offer_id,
          listings_created, listings_failed, listing_log, summary, hist>>

(* ------------------------------ helpers -------------------------------- *)
Min(x, y) == IF x < y THEN x ELSE y

Range(s) == {s[k] : k \in 1..Len(s)}

SeqsUpTo(S, n) == UNION {[1..k -> S] : k \in 0..n}

CeilDiv(n, b) == (n + b - 1) \div b

Occurrences(s, x) == Cardinality({k \in 1..Len(s) : s[k] = x})

(* ------------------------------ CSV loader ----------------------------- *)
\* float(row['price']): the price text parses, or ValueError is raised
FloatParses(text) == text = "10"

FloatOf(text) == IF text = "10" THEN 10 ELSE 0

\* InventoryItem(...) built from one row
ItemOfRow(row) == [sku |-> row.sku, price |-> FloatOf(row.price)]

\* the body of the for loop raises on this row
RowRaises(row) == ~FloatParses(row.price)

\* load_items_from_csv: one try block around the whole loop
RECURSIVE LoadFrom(_, _, _)
LoadFrom(rs, k, acc) ==
    IF k > Len(rs) THEN acc
    ELSE IF RowRaises(rs[k]) THEN acc
    ELSE LoadFrom(rs, k + 1, Append(acc, ItemOfRow(rs[k])))

load_items_from_csv(rs) == LoadFrom(rs, 1, <<>>)

(* ------------------------------ API client ----------------------------- *)
InitApi == [access_token |-> 0, token_expires |-> 0, last_request |-> 0]

\* authenticate() returns at once with the cached token
TokenCached(a, t) == a.access_token # 0 /\ t < a.token_expires

\* outcomes of the token endpoint when `posted` requests went before: the POST,
\* raise_for_status, json() or the lookup of access_token raises, so nothing
\* is stored ("fail"); the body has a token but line 83 raises on expires_in, the
\* token being truthy ("noexp") or '' or null ("emptynoexp"); a token is
\* issued with some expires_in (seconds), truthy ("ok") or '' or null
\* ("empty"). An answer that returns True and makes the next call ask again
\* (an empty token, a lifetime within the 5 minute buffer) is given at most
\* MaxShortTokens times
TokenOutcomes(posted) ==
    {[kind |-> k, expires_in |-> 0] : k \in {"fail", "noexp", "emptynoexp"}}
    \cup {[kind |-> "ok", expires_in |-> e] :
            e \in {x \in ExpiresInChoices :
                      x * 1000 > TokenBufferMs \/ posted < MaxShortTokens}}
    \cup {[kind |-> "empty", expires_in |-> e] :
            e \in {x \in ExpiresInChoices :
                      x * 1000 > TokenBufferMs /\ posted < MaxShortTokens}}

\* self.access_token after line 82: the token of the body, falsy when empty
StoredToken(serial, out) ==
    IF out.kind \in {"empty", "emptynoexp"} THEN 0 ELSE serial

\* line 83 raises: the body has no usable expires_in
NoExpiry(out) == out.kind \in {"noexp", "emptynoexp"}

NoToken == [kind |-> "unused", expires_in |-> 0]

TokenInputs(a, t, posted) ==
    IF TokenCached(a, t) THEN {NoToken} ELSE TokenOutcomes(posted)

\* authenticate() entered at time t; a token response, when one is asked for,
\* arrives at tDone. serial names the token the endpoint would issue
AuthenticateAt(a, t, tDone, serial, out) ==
    IF TokenCached(a, t)
    THEN [ok |-> TRUE, api |-> a, posted |-> 0]
    ELSE IF out.kind = "fail"
    THEN [ok |-> FALSE, api |-> a, posted |-> 1]
    ELSE IF NoExpiry(out)
    THEN [ok |-> FALSE,
          api |-> [a EXCEPT !.access_token = StoredToken(serial, out)],
          posted |-> 1]
    ELSE [ok |-> TRUE,
          api |-> [a EXCEPT !.access_token = StoredToken(serial, out),
                            !.token_expires =
                                tDone + out.expires_in * 1000 - TokenBufferMs],
          posted |-> 1]

\* authenticate() with a token endpoint that answers at once
Authenticate(a, t, serial, out) == AuthenticateAt(a, t, t, serial, out)

\* _rate_limit(): sleep until min_interval has elapsed, then stamp last_request
RateLimit(a, t) ==
    LET elapsed == t - a.last_request
        t2 == IF elapsed < MinInterval THEN t + (MinInterval - elapsed) ELSE t
    IN  [api |-> [a EXCEPT !.last_request = t2], now |-> t2]

\* a _make_request() that stamps last_request before it authenticates
MakeRequestThrottleFirst(a, t, serial, tokOut, httpOut, lat) ==
    LET rl == RateLimit(a, t)
        au == AuthenticateAt(rl.api, rl.now, rl.now + lat, serial, tokOut)
        t1 == IF au.posted = 1 THEN rl.now + lat ELSE rl.now
    IN  IF ~au.ok
        THEN [api |-> au.api, now |-> t1, posted |-> au.posted, sent |-> 0,
              raised |-> AuthErrorText, body |-> httpOut.body,
              token_at |-> rl.now, sent_at |-> 0]
        ELSE [api |-> au.api, now |-> t1 + lat, posted |-> au.posted, sent |-> 1,
              raised |-> IF httpOut.kind = "body" THEN "none" ELSE httpOut.kind,
              body |-> httpOut.body, token_at |-> rl.now, sent_at |-> t1]

\* _make_request() entered at time t, every HTTP exchange taking lat:
\* authenticate, throttle, send, raise_for_status, json(). token_at and
\* sent_at are the times the token request and the request itself go out
MakeRequestTimed(a, t, serial, tokOut, httpOut, lat) ==
    LET au == AuthenticateAt(a, t, t + lat, serial, tokOut)
        t1 == IF au.posted = 1 THEN t + lat ELSE t
    IN  IF ~au.ok
        THEN [api |-> au.api, now |-> t1, posted |-> au.posted, sent |-> 0,
              raised |-> AuthErrorText, body |-> httpOut.body,
              token_at |-> t, sent_at |-> 0]
        ELSE LET rl == RateLimit(au.api, t1)
             IN  [api |-> rl.api, now |-> rl.now + lat, posted |-> au.posted,
                  sent |-> 1,
                  raised |-> IF httpOut.kind = "body" THEN "none" ELSE httpOut.kind,
                  body |-> httpOut.body, token_at |-> t, sent_at |-> rl.now]

\* _make_request() with a remote side that answers at once
MakeRequest(a, t, serial, tokOut, httpOut) ==
    MakeRequestTimed(a, t, serial, tokOut, httpOut, 0)

\* history: the token the endpoint issued last, as authenticate() stores it
\* (line 82 keeps the token even when expires_in is missing)
IssuedAfter(issued, posted, tDone, out) ==
    IF posted = 0 \/ out.kind = "fail" THEN issued
    ELSE IF NoExpiry(out)
    THEN [truthy |-> out.kind = "noexp", complete |-> FALSE, at |-> tDone,
          expires_in |-> 0]
    ELSE [truthy |-> out.kind # "empty", complete |-> TRUE, at |-> tDone,
          expires_in |-> out.expires_in]

\* history after one authenticate() call au that was entered at time t
HistAfterAuth(h, a, t, tDone, out, au) ==
    [wire |-> h.wire \o (IF au.posted = 1 THEN <<[kind |-> "token", at |-> t]>>
                         ELSE <<>>),
     auth |-> [n |-> h.auth.n + 1, at |-> t, issued |-> h.issued,
               contacted |-> au.posted = 1, ok |-> au.ok,
               token_before |-> a.access_token,
               expires_before |-> a.token_expires,
               token_after |-> au.api.access_token,
               expires_after |-> au.api.token_expires],
     issued |-> IssuedAfter(h.issued, au.posted, tDone, out)]

\* history after one _make_request() call r that was entered at time t
HistAfterRequest(h, a, t, lat, out, r, kind) ==
    LET ha == HistAfterAuth(h, a, t, t + lat, out,
                            [posted |-> r.posted, ok |-> r.raised # AuthErrorText,
                             api |-> r.api])
    IN  [ha EXCEPT !.wire = @ \o (IF r.sent = 1
                                  THEN <<[kind |-> kind, at |-> r.sent_at]>>
                                  ELSE <<>>)]

NoIssued == [truthy |-> FALSE, complete |-> FALSE, at |-> 0, expires_in |-> 0]

InitHist ==
    [wire |-> <<>>,
     auth |-> [n |-> 0, at |-> 0, issued |-> NoIssued, contacted |-> FALSE,
               ok |-> FALSE, token_before |-> 0, expires_before |-> 0,
               token_after |-> 0, expires_after |-> 0],
     issued |-> NoIssued]

AuthWillPass(a, t, tokOut) ==
    TokenCached(a, t) \/ tokOut.kind \in {"ok", "empty"}

(* ------------------------- bulk inventory creation --------------------- *)
\* one entry of the bulk response's 'responses' list: a dict with statusCode
\* 200, a dict with another statusCode and errors, or a value that is no dict
OkEntry == [dict |-> TRUE, statusCode |-> StatusOk, errors |-> "absent"]
ErrEntry == [dict |-> TRUE, statusCode |-> 400, errors |-> "E400"]
BadEntry == [dict |-> FALSE, statusCode |-> 0, errors |-> "absent"]
DictEntries == {OkEntry, ErrEntry}

EmptyBody == [hasResponses |-> FALSE, responses |-> <<>>]

\* the 'responses' lists a chunk of n items can get: up to n dicts; fewer than
\* n dicts and then a non-dict; n dicts and then up to MaxExtra more entries.
\* Entries behind the first one that raises are never read, so none are listed.
ResponseLists(n) ==
    SeqsUpTo(DictEntries, n)
    \cup {Append(r, BadEntry) : r \in SeqsUpTo(DictEntries, n - 1)}
    \cup {r \o [k \in 1..e |-> OkEntry] : r \in [1..n -> DictEntries], e \in 1..MaxExtra}

\* what the HTTP exchange of one chunk of n items can produce
BulkHttpOutcomes(n) ==
    {[kind |-> k, body |-> EmptyBody] : k \in RaiseKinds}
    \cup {[kind |-> "body", body |-> EmptyBody]}
    \cup {[kind |-> "body", body |-> [hasResponses |-> TRUE, responses |-> r]] :
            r \in ResponseLists(n)}

NoHttp == [kind |-> "unsent", body |-> EmptyBody]

\* a slice that forgets the offset in its upper end: items[i:batch_size]
BatchUpperNoOffset(its, off, b) == SubSeq(its, off + 1, Min(b, Len(its)))

\* batch = items[i:i + batch_size]
Batch(its, off, b) == SubSeq(its, off + 1, Min(off + b, Len(its)))

\* response.get('responses', [])
ResponsesOf(body) == IF body.hasResponses THEN body.responses ELSE <<>>

\* resp.get('errors', ['Unknown error'])
ErrorsOf(resp) == IF resp.errors = "absent" THEN UnknownErrorText ELSE resp.errors

\* the for loop over enumerate(responses): stops where batch[idx] or resp.get raises
RECURSIVE ProcessFrom(_, _, _, _, _, _)
ProcessFrom(batch, off, resps, k, s, f) ==
    IF k > Len(resps) THEN [s |-> s, f |-> f, raised |-> "none"]
    ELSE IF k > Len(batch) THEN [s |-> s, f |-> f, raised |-> "IndexError"]
    ELSE IF ~resps[k].dict THEN [s |-> s, f |-> f, raised |-> "AttributeError"]
    ELSE IF resps[k].statusCode = StatusOk
    THEN ProcessFrom(batch, off, resps, k + 1,
                     Append(s, [idx |-> off + k, sku |-> batch[k].sku]), f)
    ELSE ProcessFrom(batch, off, resps, k + 1, s,
                     Append(f, [idx |-> off + k, sku |-> batch[k].sku,
                                error |-> ErrorsOf(resps[k])]))

ProcessResponse(batch, off, resps) == ProcessFrom(batch, off, resps, 1, <<>>, <<>>)

\* an except clause that records the first item of the batch only
ExceptEntriesFirstOnly(batch, off, msg) ==
    [k \in 1..Min(1, Len(batch)) |-> [idx |-> off + k, sku |-> batch[k].sku, error |-> msg]]

\* except Exception as e: every item of the batch is appended to failed
ExceptEntries(batch, off, msg) ==
    [k \in 1..Len(batch) |-> [idx |-> off + k, sku |-> batch[k].sku, error |-> msg]]

\* the try/except of one chunk: entries appended to successful and to failed
ChunkResult(batch, off, r) ==
    IF r.raised # "none"
    THEN [s |-> <<>>, f |-> ExceptEntries(batch, off, r.raised), procRaised |-> "none"]
    ELSE LET p == ProcessResponse(batch, off, ResponsesOf(r.body))
         IN  IF p.raised = "none"
             THEN [s |-> p.s, f |-> p.f, procRaised |-> "none"]
             ELSE [s |-> p.s, f |-> p.f \o ExceptEntries(batch, off, p.raised),
                   procRaised |-> p.raised]

SkuOnly(es) == [k \in 1..Len(es) |-> es[k].sku]
IdxOnly(es) == [k \in 1..Len(es) |-> es[k].idx]
FailedEntry(es) == [k \in 1..Len(es) |-> [sku |-> es[k].sku, error |-> es[k].error]]

\* one iteration of `for i in range(0, len(items), batch_size)`
BulkChunk ==
    /\ pc = "bulk"
    /\ i < Len(items)
    /\ LET batch == Batch(items, i, batch_size)
       IN  \E tokOut \in TokenInputs(api, now, http.token) :
           \E httpOut \in (IF AuthWillPass(api, now, tokOut)
                           THEN BulkHttpOutcomes(Len(batch)) ELSE {NoHttp}) :
             LET r == MakeRequest(api, now, http.token + 1, tokOut, httpOut)
                 c == ChunkResult(batch, i, r)
             IN  /\ api' = r.api
                 /\ now' = r.now
                 /\ http' = [http EXCEPT !.token = @ + r.posted, !.bulk = @ + r.sent]
                 /\ hist' = HistAfterRequest(hist, api, now, 0, tokOut, r, "bulk")
                 /\ successful' = successful \o SkuOnly(c.s)
                 /\ successfulIdx' = successfulIdx \o IdxOnly(c.s)
                 /\ failed' = failed \o FailedEntry(c.f)
                 /\ failedIdx' = failedIdx \o IdxOnly(c.f)
                 /\ chunks' = Append(chunks,
                        [lo |-> i, batch |-> batch, sent |-> r.sent,
                         raised |-> r.raised, procRaised |-> c.procRaised,
                         responses |-> IF r.raised = "none"
                                       THEN ResponsesOf(r.body) ELSE <<>>])
                 /\ i' = i + batch_size
    /\ UNCHANGED <<pc, rows, items, create_listings, batch_size, li, offer_id,
                   listings_created, listings_failed, listing_log, summary>>

\* return results (a direct call of bulk_create_inventory_items)
BulkReturn ==
    /\ pc = "bulk"
    /\ i >= Len(items)
    /\ pc' = "returned"
    /\ UNCHANGED <<rows, items, create_listings, batch_size, i, successful, failed,
                   successfulIdx, failedIdx, chunks, api, now, http, li, offer_id,
                   listings_created, listings_failed, listing_log, summary, hist>>

(* ------------------------------ state ---------------------------------- *)
\* rows that load and one row with a non-numeric price; SKUs are named in
\* order of first use, so a list starts with "a"
Rows == [sku : Skus, price : {"10"}] \cup [sku : {"a"}, price : PriceTexts]
RowLists == {r \in SeqsUpTo(Rows, MaxItems) : r = <<>> \/ r[1].sku = "a"}
ItemLists ==
    {s \in SeqsUpTo([sku : Skus, price : {10}], MaxItems) : s = <<>> \/ s[1].sku = "a"}
NoSummary == [k \in {} |-> 0]

InitCommon ==
    /\ i = 0
    /\ successful = <<>>
    /\ failed = <<>>
    /\ successfulIdx = <<>>
    /\ failedIdx = <<>>
    /\ chunks = <<>>
    /\ api = InitApi
    /\ now = StartTime
    /\ http = [token |-> 0, bulk |-> 0, offer |-> 0, publish |-> 0]
    /\ li = 0
    /\ offer_id = "None"
    /\ listings_created = 0
    /\ listings_failed = 0
    /\ listing_log = <<>>
    /\ summary = NoSummary
    /\ hist = InitHist

\* a direct call bulk_create_inventory_items(items, batch_size)
InitBulk ==
    /\ pc = "bulk"
    /\ rows = <<>>
    /\ items \in ItemLists
    /\ create_listings = FALSE
    /\ batch_size \in 1..MaxBatch
    /\ CeilDiv(Len(items), batch_size) <= MaxChunks
    /\ InitCommon

NextBulk == BulkChunk \/ BulkReturn

SpecBulk == InitBulk /\ [][NextBulk]_vars

(* --------------------------- process_csv_file -------------------------- *)
\* a pipeline without the empty-input check
NoItemsNeverTrue(its) == FALSE

\* `if not items`
NoItems(its) == Len(its) = 0

EmptySummary == [success |-> FALSE, message |-> "No items found"]

\* results = {"inventory_created": ..., "inventory_failed": ..., "failed_items": ...}
InventorySummary(s, f) ==
    [inventory_created |-> Len(s), inventory_failed |-> Len(f), failed_items |-> f]

\* results.update({"listings_created": ..., "listings_failed": ...})
WithListings(res, created, nfailed) ==
    res @@ [listings_created |-> created, listings_failed |-> nfailed]

\* a listings loop without the membership test
OfferEligibleAlways(sku, succ) == TRUE

\* `if item.sku in inventory_results["successful"]`
OfferEligible(sku, succ) == sku \in Range(succ)

\* `if offer_id:`
Truthy(id) == id # "None" /\ id # ""

\* load_items_from_csv returned nothing: return the "No items found" dict
ProcessEmpty ==
    /\ pc = "start"
    /\ NoItems(load_items_from_csv(rows))
    /\ items' = load_items_from_csv(rows)
    /\ summary' = EmptySummary
    /\ pc' = "done"
    /\ UNCHANGED <<hist, rows, create_listings, batch_size, i, successful,
                   failed, successfulIdx, failedIdx, chunks, api, now, http,
                   li, offer_id, listings_created, listings_failed,
                   listing_log>>

\* load_items_from_csv returned items: go on to bulk_create_inventory_items(items)
ProcessLoad ==
    /\ pc = "start"
    /\ ~NoItems(load_items_from_csv(rows))
    /\ items' = load_items_from_csv(rows)
    /\ pc' = "bulk"
    /\ UNCHANGED <<rows, create_listings, batch_size, i, successful, failed,
                   successfulIdx, failedIdx, chunks, api, now, http, li, offer_id,
                   listings_created, listings_failed, listing_log, summary, hist>>

\* bulk_create_inventory_items returned: build results; return them unless
\* create_listings
ProcessInventoryResults ==
    /\ pc = "bulk"
    /\ i >= Len(items)
    /\ summary' = InventorySummary(successful, failed)
    /\ pc' = IF create_listings THEN "listings" ELSE "done"
    /\ UNCHANGED <<hist, rows, items, create_listings, batch_size, i,
                   successful, failed, successfulIdx, failedIdx, chunks, api,
                   now, http, li, offer_id, listings_created, listings_failed,
                   listing_log>>

(* ------------------------------ listings ------------------------------- *)
\* what the HTTP exchange of POST offer can produce
OfferHttpOutcomes ==
    {[kind |-> k, body |-> [offerId |-> "None"]] : k \in RaiseKinds}
    \cup {[kind |-> "body", body |-> [offerId |-> id]] : id \in {"OFFER", "", "None"}}

\* what the HTTP exchange of POST offer/{id}/publish can produce
PublishHttpOutcomes ==
    {[kind |-> k, body |-> [offerId |-> "None"]] : k \in RaiseKinds \cup {"body"}}

NoListingHttp == [kind |-> "unsent", body |-> [offerId |-> "None"]]

\* create_offer(): the offerId of the response, None when anything raised
CreateOfferResult(r) == IF r.raised # "none" THEN "None" ELSE r.body.offerId

\* publish_offer(): True unless anything raised
PublishOfferResult(r) == r.raised = "none"

\* a listings loop that does not count an offer that was not created
AfterOfferFailedUncounted(created, nfailed) ==
    [created |-> created, failed |-> nfailed]

\* listings_created, listings_failed after an offer that was not published
AfterOfferFailed(created, nfailed) == [created |-> created, failed |-> nfailed + 1]

\* a loop that counts a listing as created whatever publish_offer returned
AfterPublishIgnoresResult(created, nfailed, ok) ==
    [created |-> created + 1, failed |-> nfailed]

\* listings_created, listings_failed after publish_offer returned ok
AfterPublish(created, nfailed, ok) ==
    IF ok THEN [created |-> created + 1, failed |-> nfailed]
    ELSE [created |-> created, failed |-> nfailed + 1]

\* loop iteration for an item whose sku is not in successful
ListingSkip ==
    /\ pc = "listings"
    /\ li < Len(items)
    /\ ~OfferEligible(items[li + 1].sku, successful)
    /\ li' = li + 1
    /\ UNCHANGED <<hist, pc, rows, items, create_listings, batch_size, i,
                   successful, failed, successfulIdx, failedIdx, chunks, api,
                   now, http, offer_id, listings_created, listings_failed,
                   listing_log, summary>>

\* loop iteration up to `if offer_id:`; the else branch counts a failure
ListingOffer ==
    /\ pc = "listings"
    /\ li < Len(items)
    /\ OfferEligible(items[li + 1].sku, successful)
    /\ \E tokOut \in TokenInputs(api, now, http.token) :
       \E httpOut \in (IF AuthWillPass(api, now, tokOut)
                       THEN OfferHttpOutcomes ELSE {NoListingHttp}) :
         LET r == MakeRequest(api, now, http.token + 1, tokOut, httpOut)
             id == CreateOfferResult(r)
             cnt == AfterOfferFailed(listings_created, listings_failed)
         IN  /\ api' = r.api
             /\ now' = r.now
             /\ http' = [http EXCEPT !.token = @ + r.posted, !.offer = @ + r.sent]
             /\ hist' = HistAfterRequest(hist, api, now, 0, tokOut, r, "offer")
             /\ listing_log' = Append(listing_log,
                    [idx |-> li + 1, sku |-> items[li + 1].sku,
                     got_id |-> Truthy(id), publish_calls |-> 0,
                     publish |-> "notcalled"])
             /\ IF Truthy(id)
                THEN /\ offer_id' = id
                     /\ pc' = "publish"
                     /\ UNCHANGED <<li, listings_created, listings_failed>>
                ELSE /\ offer_id' = "None"
                     /\ pc' = "listings"
                     /\ li' = li + 1
                     /\ listings_created' = cnt.created
                     /\ listings_failed' = cnt.failed
    /\ UNCHANGED <<rows, items, create_listings, batch_size, i, successful, failed,
                   successfulIdx, failedIdx, chunks, summary>>

\* `if self.listings.publish_offer(offer_id)` and the two counters
ListingPublish ==
    /\ pc = "publish"
    /\ \E tokOut \in TokenInputs(api, now, http.token) :
       \E httpOut \in (IF AuthWillPass(api, now, tokOut)
                       THEN PublishHttpOutcomes ELSE {NoListingHttp}) :
         LET r == MakeRequest(api, now, http.token + 1, tokOut, httpOut)
             ok == PublishOfferResult(r)
             cnt == AfterPublish(listings_created, listings_failed, ok)
         IN  /\ api' = r.api
             /\ now' = r.now
             /\ http' = [http EXCEPT !.token = @ + r.posted, !.publish = @ + r.sent]
             /\ hist' = HistAfterRequest(hist, api, now, 0, tokOut, r, "publish")
             /\ listing_log' = [listing_log EXCEPT
                                    ![Len(listing_log)].publish_calls = @ + 1,
                                    ![Len(listing_log)].publish =
                                        IF ok THEN "ok" ELSE "fail"]
             /\ listings_created' = cnt.created
             /\ listings_failed' = cnt.failed
    /\ offer_id' = "None"
    /\ li' = li + 1
    /\ pc' = "listings"
    /\ UNCHANGED <<rows, items, create_listings, batch_size, i, successful, failed,
                   successfulIdx, failedIdx, chunks, summary>>

\* the loop over items is exhausted: results.update(...); return results
ProcessReturn ==
    /\ pc = "listings"
    /\ li >= Len(items)
    /\ summary' = WithListings(summary, listings_created, listings_failed)
    /\ pc' = "done"
    /\ UNCHANGED <<hist, rows, items, create_listings, batch_size, i,
                   successful, failed, successfulIdx, failedIdx, chunks, api,
                   now, http, li, offer_id, listings_created, listings_failed,
                   listing_log>>

\* a call process_csv_file(csv_path, create_listings) on a fresh EbayAutolister
Init ==
    /\ pc = "start"
    /\ rows \in RowLists
    /\ items = <<>>
    /\ create_listings \in BOOLEAN
    /\ batch_size = DefaultBatchSize
    /\ InitCommon

Next ==
    \/ ProcessEmpty
    \/ ProcessLoad
    \/ BulkChunk
    \/ ProcessInventoryResults
    \/ ListingSkip
    \/ ListingOffer
    \/ ListingPublish
    \/ ProcessReturn

Spec == Init /\ [][Next]_vars

(* ------------------- calls on one EbayAPI instance --------------------- *)
\* how long the caller idles before its next call: not at all, one throttle
\* interval, or until one millisecond before the stored expiry and until it
Gaps(a, t) ==
    {0, MinInterval}
    \cup {d \in {a.token_expires - t - 1, a.token_expires - t} : d > 0}

\* what the HTTP exchange of a request can produce: a body, or a 4xx/5xx status
ApiHttpOutcomes == {[kind |-> "body", body |-> EmptyBody],
                    [kind |-> "http", body |-> EmptyBody]}

\* a fresh client: EbayAPI(...) with no token and last_request = 0
InitApiCalls ==
    /\ pc = "api"
    /\ rows = <<>>
    /\ items = <<>>
    /\ create_listings = FALSE
    /\ batch_size = 1
    /\ InitCommon

\* a direct call of authenticate() (the connectivity test of the CLI)
ApiAuthenticate ==
    /\ pc = "api"
    /\ hist.auth.n < MaxCalls
    /\ \E d \in Gaps(api, now) :
       \E tokOut \in TokenInputs(api, now + d, http.token) :
         LET t == now + d
             au == AuthenticateAt(api, t, t + Latency, http.token + 1, tokOut)
         IN  /\ api' = au.api
             /\ now' = IF au.posted = 1 THEN t + Latency ELSE t
             /\ http' = [http EXCEPT !.token = @ + au.posted]
             /\ hist' = HistAfterAuth(hist, api, t, t + Latency, tokOut, au)
    /\ UNCHANGED <<pc, rows, items, create_listings, batch_size, i, successful,
                   failed, successfulIdx, failedIdx, chunks, li, offer_id,
                   listings_created, listings_failed, listing_log, summary>>

\* a call of _make_request() by one of the managers
ApiRequest ==
    /\ pc = "api"
    /\ hist.auth.n < MaxCalls
    /\ \E d \in Gaps(api, now) :
       \E tokOut \in TokenInputs(api, now + d, http.token) :
       \E httpOut \in (IF AuthWillPass(api, now + d, tokOut)
                       THEN ApiHttpOutcomes ELSE {NoHttp}) :
         LET t == now + d
             r == MakeRequestTimed(api, t, http.token + 1, tokOut, httpOut, Latency)
         IN  /\ api' = r.api
             /\ now' = r.now
             /\ http' = [http EXCEPT !.token = @ + r.posted, !.bulk = @ + r.sent]
             /\ hist' = HistAfterRequest(hist, api, t, Latency, tokOut, r, "bulk")
    /\ UNCHANGED <<pc, rows, items, create_listings, batch_size, i, successful,
                   failed, successfulIdx, failedIdx, chunks, li, offer_id,
                   listings_created, listings_failed, listing_log, summary>>

NextApi == ApiAuthenticate \/ ApiRequest

SpecApi == InitApiCalls /\ [][NextApi]_vars

(* ============================ properties =============================== *)
\* input positions of the items of one chunk
ChunkPositions(c) == {c.lo + k : k \in 1..Len(c.batch)}

\* how many entries of a position list name a position of S
CountIn(idxs, S) == Cardinality({p \in 1..Len(idxs) : idxs[p] \in S})

\* how often the item at input position n was recorded, in either list
TimesRecorded(n) == Occurrences(successfulIdx, n) + Occurrences(failedIdx, n)

FailedSkus == {failed[p].sku : p \in 1..Len(failed)}

DistinctSkus(its) ==
    \A m, n \in 1..Len(its) : its[m].sku = its[n].sku => m = n

\* C1: when bulk_create_inventory_items returns, len(successful) + len(failed)
\* equals len(items), and the same holds for the items of each chunk.
C1_CountsAddUp ==
    pc = "returned" =>
        /\ Len(successful) + Len(failed) = Len(items)
        /\ \A k \in 1..Len(chunks) :
              CountIn(successfulIdx, ChunkPositions(chunks[k]))
              + CountIn(failedIdx, ChunkPositions(chunks[k])) = Len(chunks[k].batch)

\* C2: each input item is recorded at most once across successful and failed,
\* and (SKUs being unique identifiers) no SKU is in both lists.
C2_RecordedAtMostOnce ==
    /\ \A n \in 1..Len(items) : TimesRecorded(n) <= 1
    /\ DistinctSkus(items) => Range(successful) \cap FailedSkus = {}

\* the step that handles a chunk whose POST raised
C3_RaiseStep ==
    (Len(chunks') = Len(chunks) + 1 /\ chunks'[Len(chunks')].raised # "none") =>
        LET c == chunks'[Len(chunks')]
        IN  /\ c.lo = i
            /\ \A j \in 1..Len(c.batch) : c.batch[j] = items[i + j]
            /\ successful' = successful
            /\ successfulIdx' = successfulIdx
            /\ failed' = failed \o [j \in 1..Len(c.batch) |->
                                      [sku |-> items[i + j].sku, error |-> c.raised]]
            /\ failedIdx' = failedIdx \o [j \in 1..Len(c.batch) |-> i + j]
            /\ i' = i + batch_size

\* every chunk start is requested once, whatever was raised on the way
C3_EachChunkOnce ==
    /\ \A k \in 1..Len(chunks) : chunks[k].lo = (k - 1) * batch_size
    /\ pc = "returned" => Len(chunks) = CeilDiv(Len(items), batch_size)

\* C3: when the POST of a chunk raises, exactly the items of that chunk are
\* appended to failed with that error's message, the results recorded before
\* are left as they were, the chunk is not requested again and the remaining
\* chunks are still requested.
C3_ChunkRaise == [][C3_RaiseStep]_vars /\ []C3_EachChunkOnce

C3_Witness ==
    /\ pc = "returned"
    /\ Len(chunks) = 2
    /\ Len(chunks[1].batch) = 2
    /\ chunks[1].raised = "none"
    /\ Len(successful) = 2
    /\ chunks[2].raised = "transport"
    /\ Len(failed) = 1

\* C4: the k-th bulk POST call carries items (k-1)*B+1 .. min(k*B, N) in input
\* order (1-based), at most B of them, and when the function returns exactly
\* ceil(N/B) calls were made, whatever each call's outcome.
C4_Chunking ==
    /\ \A k \in 1..Len(chunks) :
          LET c == chunks[k]
              lo == (k - 1) * batch_size
          IN  /\ c.lo = lo
              /\ Len(c.batch) = Min(batch_size, Len(items) - lo)
              /\ Len(c.batch) >= 1
              /\ Len(c.batch) <= batch_size
              /\ \A j \in 1..Len(c.batch) : c.batch[j] = items[lo + j]
    /\ Len(chunks) <= CeilDiv(Len(items), batch_size)
    /\ pc = "returned" => Len(chunks) = CeilDiv(Len(items), batch_size)

C4_Witness ==
    /\ pc = "returned"
    /\ Len(items) = 3
    /\ batch_size = 2
    /\ Len(chunks) = 2
    /\ chunks[1].raised = "http"
    /\ chunks[2].raised = "none"
    /\ Len(chunks[2].batch) = 1
    /\ failed[Len(failed)].error = "E400"

\* C5: for a chunk whose POST returned, the item at position j is in
\* successful exactly when entry j of 'responses' has statusCode 200, it is in
\* failed exactly when entry j exists with another outcome, then once and
\* with that entry's errors (when the entry is a dict that can carry errors);
\* nothing else decides where item j goes.
C5_Positional ==
    pc = "returned" =>
        \A k \in 1..Len(chunks) :
            chunks[k].raised = "none" =>
                \A j \in 1..Len(chunks[k].batch) :
                    LET n == chunks[k].lo + j
                        R == chunks[k].responses
                        has == j <= Len(R)
                        ok == has /\ R[j].dict /\ R[j].statusCode = StatusOk
                    IN  /\ Occurrences(successfulIdx, n) = (IF ok THEN 1 ELSE 0)
                        /\ Occurrences(failedIdx, n) = (IF has /\ ~ok THEN 1 ELSE 0)
                        /\ \A p \in 1..Len(failed) :
                              (failedIdx[p] = n /\ R[j].dict) =>
                                  failed[p].error = ErrorsOf(R[j])

\* the items of the rows that parse, in file order
ValidItems(rs) ==
    LET good == SelectSeq(rs, LAMBDA row : FloatParses(row.price))
    IN  [k \in 1..Len(good) |-> ItemOfRow(good[k])]

\* C6: the loader returns exactly the valid rows, in file order, wherever the
\* malformed rows stand.
C6_SkipsMalformedRows == pc # "start" => items = ValidItems(rows)

CountKeys == {"inventory_created", "inventory_failed", "listings_created",
              "listings_failed"}

NoHttpSent == http.token = 0 /\ http.bulk = 0 /\ http.offer = 0 /\ http.publish = 0

\* C7: when the loader returns no items, process_csv_file returns a dict with
\* success False and none of the count keys, and no request of any kind was
\* made, for either value of create_listings.
C7_EmptyInput ==
    (pc = "done" /\ load_items_from_csv(rows) = <<>>) =>
        /\ "success" \in DOMAIN summary
        /\ summary.success = FALSE
        /\ DOMAIN summary \cap CountKeys = {}
        /\ NoHttpSent
        /\ chunks = <<>>
        /\ listing_log = <<>>

C7_Witness ==
    /\ pc = "done"
    /\ create_listings
    /\ Len(rows) = 2
    /\ items = <<>>
    /\ DOMAIN summary = {"success", "message"}

\* C8 as stated: an offer is created only after the bulk creation returned,
\* only with create_listings, and only for an input item that the bulk result
\* reported as created (the item's own position was recorded in successful;
\* an item that only failed gets no offer, whatever SKU it has).
C8_OnlyItemsReportedCreated ==
    \A p \in 1..Len(listing_log) :
        /\ create_listings
        /\ "inventory_created" \in DOMAIN summary
        /\ listing_log[p].idx \in Range(successfulIdx)

\* C8 amended: an offer is created only after the bulk creation returned, only
\* with create_listings, at most once per input item and only for an item
\* whose SKU is in the bulk result's successful list; publish is called only
\* for such an offer; an item whose SKU is not in that list gets neither.
C8_OnlySuccessfulSkus ==
    /\ \A p \in 1..Len(listing_log) :
          /\ create_listings
          /\ "inventory_created" \in DOMAIN summary
          /\ i >= Len(items)
          /\ listing_log[p].idx \in 1..Len(items)
          /\ listing_log[p].sku = items[listing_log[p].idx].sku
          /\ listing_log[p].sku \in Range(successful)
          /\ \A q \in 1..Len(listing_log) :
                listing_log[q].idx = listing_log[p].idx => q = p
    /\ http.offer <= Len(listing_log)
    /\ http.publish <= Len(listing_log)
    /\ pc = "publish" => listing_log # <<>>
    /\ ~create_listings => http.offer = 0 /\ http.publish = 0

C8_Witness ==
    /\ pc = "done"
    /\ Len(items) = 3
    /\ Len(listing_log) = 2
    /\ items[3].sku \notin Range(successful)
    /\ \E p \in 1..2 : listing_log[p].idx \notin Range(successfulIdx)
    /\ http.offer = 2

\* input positions whose SKU is in successful, in input order
EligiblePositions ==
    SelectSeq([n \in 1..Len(items) |-> n],
              LAMBDA n : items[n].sku \in Range(successful))

LogCount(P(_)) == Cardinality({p \in 1..Len(listing_log) : P(listing_log[p])})

IsListed(e) == e.got_id /\ e.publish = "ok"
IsNotListed(e) == ~(e.got_id /\ e.publish = "ok")

\* C9: publish_offer is called only for an offer id that create_offer
\* returned, and once; an attempted item adds one to listings_created when
\* offer and publish both succeeded and one to listings_failed otherwise; the
\* items attempted are the eligible ones, whatever failed before them.
C9_ListingCounts ==
    /\ \A p \in 1..Len(listing_log) :
          LET e == listing_log[p]
          IN  /\ e.publish_calls <= 1
              /\ e.publish_calls = 1 => e.got_id
              /\ (e.publish = "notcalled") = (e.publish_calls = 0)
              /\ (e.got_id /\ e.publish_calls = 0) => (pc = "publish" /\ p = Len(listing_log))
    /\ pc \in {"listings", "done"} =>
          /\ listings_created = LogCount(IsListed)
          /\ listings_failed = LogCount(IsNotListed)
    /\ pc = "publish" => listings_created + listings_failed = Len(listing_log) - 1
    /\ (pc = "done" /\ create_listings /\ Len(items) > 0) =>
          /\ [p \in 1..Len(listing_log) |-> listing_log[p].idx] = EligiblePositions
          /\ "listings_created" \in DOMAIN summary
          /\ summary.listings_created = LogCount(IsListed)
          /\ summary.listings_failed = LogCount(IsNotListed)

C9_Witness ==
    /\ pc = "done"
    /\ Len(listing_log) = 3
    /\ \A p \in 1..3 : listing_log[p].got_id
    /\ listing_log[1].publish = "ok"
    /\ listing_log[2].publish = "fail"
    /\ listing_log[3].publish = "ok"
    /\ summary.listings_created = 2
    /\ summary.listings_failed = 1

\* C10: a run on a non-empty input ends with a summary that carries
\* inventory_created and inventory_failed; every chunk is requested once;
\* every item that was not created is recorded in failed_items, and the two
\* counts are the lengths of the two lists.
C10_FailuresRecorded ==
    (pc = "done" /\ Len(items) > 0) =>
        /\ {"inventory_created", "inventory_failed", "failed_items"} \subseteq DOMAIN summary
        /\ summary.inventory_created = Len(successful)
        /\ summary.inventory_failed = Len(failed)
        /\ summary.failed_items = failed
        /\ Len(chunks) = CeilDiv(Len(items), batch_size)
        /\ \A n \in 1..Len(items) :
              n \notin Range(successfulIdx) => n \in Range(failedIdx)

(* ------------------------------- C11 ----------------------------------- *)
\* the instant from which the token issued last counts as expired
ExpiryOf(issued) == issued.at + issued.expires_in * 1000 - TokenBufferMs

\* a token with its lifetime was issued and call time t is before its expiry
FreshAt(issued, t) ==
    issued.truthy /\ issued.complete /\ t < ExpiryOf(issued)

\* the claim's statement for one authenticate() call c
TokenReuseAt(c) ==
    LET fresh == FreshAt(c.issued, c.at)
    IN  /\ c.contacted <=> ~fresh
        /\ fresh => /\ c.ok
                    /\ c.token_after = c.token_before
                    /\ c.expires_after = c.expires_before
                    /\ c.token_after # 0

\* C11: in any sequence of authenticate and _make_request calls on one
\* client, the last authenticate() contacted the token endpoint exactly when
\* no token was cached or the call time had reached the cached token's issue
\* time + expires_in - 300 s; otherwise it returned True and left the cached
\* token and its expiry as they were.
C11_TokenReuse == hist.auth.n > 0 => TokenReuseAt(hist.auth)

\* the same for the calls that found no token stored without a lifetime
C11_ReuseWithKnownLifetime ==
    (hist.auth.n > 0 /\ (hist.auth.issued.complete \/ ~hist.auth.issued.truthy))
        => TokenReuseAt(hist.auth)

\* a token that came without expires_in is reused under the expiry that an
\* earlier answer left behind
C11_StaleExpiryReused ==
    /\ hist.auth.n > 0
    /\ hist.auth.issued.truthy
    /\ ~hist.auth.issued.complete
    /\ ~hist.auth.contacted
    /\ hist.auth.ok

(* ------------------------------- C12 ----------------------------------- *)
\* the step is a chunk whose _make_request() failed to authenticate
AuthFailedStep ==
    /\ Len(chunks') = Len(chunks) + 1
    /\ hist'.auth.n = hist.auth.n + 1
    /\ ~hist'.auth.ok

\* a failed authentication sends nothing to the inventory endpoint and
\* leaves last_request alone; the chunk's request raises
C12_AuthFailStep ==
    AuthFailedStep =>
        /\ http'.bulk = http.bulk
        /\ api'.last_request = api.last_request
        /\ \A k \in Len(hist.wire) + 1..Len(hist'.wire) : hist'.wire[k].kind = "token"
        /\ chunks'[Len(chunks')].sent = 0
        /\ chunks'[Len(chunks')].raised = AuthErrorText

AllAuthFailed ==
    /\ chunks # <<>>
    /\ \A c \in 1..Len(chunks) : chunks[c].raised = AuthErrorText

\* a bulk run in which every authentication failed sent no inventory request
\* and reports every input item as failed, once
C12_AllFailedRun ==
    (pc = "returned" /\ AllAuthFailed) =>
        /\ http.bulk = 0
        /\ api.last_request = InitApi.last_request
        /\ successful = <<>>
        /\ Len(failed) = Len(items)
        /\ \A n \in 1..Len(items) :
              /\ failedIdx[n] = n
              /\ failed[n] = [sku |-> items[n].sku, error |-> AuthErrorText]

\* C12: when authentication fails inside _make_request, the call raises
\* before any inventory request is sent and before last_request is touched;
\* if authentication fails for every attempt of a bulk run, no inventory
\* request is sent and every input item is reported as failed.
C12_AuthFailure == [][C12_AuthFailStep]_vars /\ []C12_AllFailedRun

\* a run of two chunks over three items in which both authentications failed,
\* the second time with a token stored by the first
C12_Witness ==
    /\ pc = "returned"
    /\ Len(items) = MaxItems
    /\ Len(chunks) = 2
    /\ AllAuthFailed
    /\ http.token = 2
    /\ http.bulk = 0
    /\ hist.auth.token_before # 0
    /\ Len(failed) = MaxItems

(* ------------------------------- C13 ----------------------------------- *)
\* C13: any two consecutive outbound HTTP requests of one client, token
\* requests included, are at least the minimum interval (100 ms) apart.
C13_MinSpacing ==
    \A k \in 2..Len(hist.wire) :
        hist.wire[k].at - hist.wire[k - 1].at >= MinInterval

\* the same spacing between consecutive requests that _make_request sends
\* itself, token requests left out
C13_ThrottledSpacing ==
    LET sent == SelectSeq(hist.wire, LAMBDA w : w.kind # "token")
    IN  \A k \in 2..Len(sent) : sent[k].at - sent[k - 1].at >= MinInterval

(* ------------------------------- C14 ----------------------------------- *)
ListingsRunDone == pc = "done" /\ create_listings /\ Len(items) > 0

\* C14 as stated: in every summary of a run with create_listings=True on a
\* non-empty input, listings_created + listings_failed = inventory_created,
\* also when two items share a SKU.
C14_ListingsEqualCreated ==
    ListingsRunDone =>
        summary.listings_created + summary.listings_failed
            = summary.inventory_created

\* C14: in every such summary listings_created + listings_failed is the
\* number of input items whose SKU is in the successful list, which is
\* inventory_created whenever the SKUs of the input are pairwise distinct.
C14_ListingsPerEligibleItem ==
    ListingsRunDone =>
        /\ summary.listings_created + summary.listings_failed
              = Cardinality({n \in 1..Len(items) :
                               items[n].sku \in Range(successful)})
        /\ DistinctSkus(items) =>
              summary.listings_created + summary.listings_failed
                  = summary.inventory_created

\* two items share a SKU, one of them was created: two listings attempted,
\* one of them without an offer id
C14_Witness ==
    /\ ListingsRunDone
    /\ Len(items) = 2
    /\ ~DistinctSkus(items)
    /\ summary.inventory_created = 1
    /\ summary.inventory_failed = 1
    /\ summary.listings_created = 1
    /\ summary.listings_failed = 1
====
